---------------------------- MODULE Spec2Model ----------------------------
(***************************************************************************)
(* State-machine model of the MumbaiRailway React component               *)
(* (react-app/src/components/MumbaiRailway.tsx): the train registry, the   *)
(* position update loop, the disruption factors, the quick actions, the    *)
(* AI decision cycle and its log, and the timers that drive them.          *)
(*                                                                         *)
(* Number representation (all arithmetic is exact integer arithmetic):     *)
(*   - positionInSegment is counted in 1/PosScale of a segment, so the     *)
(*     per-tick increment 0.05 is PositionIncrement = 3 and 1.0 is 60;     *)
(*   - delay is counted in 1/DelayScale of a minute, so 2 min = 400,       *)
(*     5 min = 1000, 3 min = 600, 8 min = 1600;                            *)
(*   - a Math.random() result u in [0,1) is an input k with u = k/10       *)
(*     (k in 0..9), except the passenger draw of a tick, u = k/50          *)
(*     (k in 0..49), so that floor(u*50 - 20) = k - 20;                    *)
(*   - Date.now()/60000 is an input in whole minutes (only its value       *)
(*     modulo 60 matters to initializeTrains).                             *)
(* Display-only fields of a train (name, route, lat, lon, eta,             *)
(* estimatedTime, speed, startTime, distanceToNext) and the timestamp      *)
(* prefix of a log line are not modelled.                                  *)
(***************************************************************************)
EXTENDS Integers, Sequences, FiniteSets, TLC

VARIABLES
    isSimulationRunning,      \* useState(false)
    trains,                   \* useState<Train[]>([]): sequence of train records
    trainCount,               \* displayed metrics
    passengerCount,
    avgDelay,
    efficiency,
    aiActive,                 \* AI system state
    aiDecisions,
    aiPreventedDelays,
    aiOptimizations,
    aiPerformance,
    aiDecisionLog,            \* most-recent-first sequence of log lines
    disruptionFactors,        \* record of the eight levels
    simulationIntervalRef,    \* NoTimer or the closure of the armed interval
    trackingIntervalRef,
    advancedSystemsIntervalRef,
    aiLogIntervalRef,
    animationFrameRef,
    timeouts,                 \* pending setTimeout callbacks (a sequence of closures)
    ticks,                    \* position-interval callbacks run so far
    callbacks,                \* other timer callbacks (interval, timeout, animation frame) run so far
    clicks                    \* user interactions (button clicks) handled so far

vars == <<isSimulationRunning, trains, trainCount, passengerCount, avgDelay,
          efficiency, aiActive, aiDecisions, aiPreventedDelays, aiOptimizations,
          aiPerformance, aiDecisionLog, disruptionFactors, simulationIntervalRef,
          trackingIntervalRef, advancedSystemsIntervalRef, aiLogIntervalRef,
          animationFrameRef, timeouts, ticks, callbacks, clicks>>

-----------------------------------------------------------------------------
(* Scales and program constants *)

PosScale == 60
DelayScale == 200
PositionIncrement == 3        \* 0.05 * PosScale
DelayedThreshold == 400       \* 2 minutes
CriticalThreshold == 1000     \* 5 minutes
HoldDelay == 600              \* 3 minutes
SwapDelay == 400              \* 2 minutes
RerouteDelay == 1600          \* 8 minutes
MaxPassengers == 2000
MaxFactorLevel == 5
LogKeep == 9                  \* prev.slice(0, 9)

\* A ref holding null, and a ref holding a timer whose callback closes over scope
NoTimer == [armed |-> FALSE]
Timer(scope) == [armed |-> TRUE, scope |-> scope]

Min(a, b) == IF a < b THEN a ELSE b
Max(a, b) == IF a > b THEN a ELSE b

-----------------------------------------------------------------------------
(* Topology: stationData, grouped by line, in array order *)

lines == <<"Western", "Central Main", "Trans-Harbour">>

WesternStations ==
    <<"Churchgate", "Marine Lines", "Charni Road", "Grant Road", "Mumbai Central",
      "Mahalaxmi", "Lower Parel", "Elphinstone Road", "Dadar", "Bandra", "Khar Road",
      "Santacruz", "Vile Parle", "Andheri", "Jogeshwari", "Ram Mandir", "Goregaon",
      "Malad", "Kandivali", "Borivali", "Dahisar", "Mira Road", "Bhayandar",
      "Naigaon", "Vasai Road", "Nallasopara", "Virar">>

CentralMainStations ==
    <<"CST", "Masjid", "Sandhurst Road", "Dockyard Road", "Reay Road", "Cotton Green",
      "Sewri", "Wadala Road", "Kings Circle", "Mahim", "Bandra Central",
      "Khar Road Central", "Kurla", "Vidyavihar", "Ghatkopar", "Vikhroli",
      "Kanjurmarg", "Bhandup", "Nahur", "Mulund", "Thane", "Kalwa", "Mumbra", "Diva",
      "Kopar", "Dombivli", "Thakurli", "Kalyan">>

TransHarbourStations ==
    <<"Thane Trans", "Airoli", "Ghansoli", "Rabale", "Belapur CBD", "Kharghar",
      "Mansarovar", "Khandeshwar", "Panvel", "Nerul", "Juinagar">>

\* stationData without the filter on the line: every line runs on the first list
lineStationsOf_unfiltered(line) == WesternStations

\* stationData.filter(s => s.line === line)
lineStationsOf(line) ==
    CASE line = "Western" -> WesternStations
      [] line = "Central Main" -> CentralMainStations
      [] line = "Trans-Harbour" -> TransHarbourStations
      [] OTHER -> << >>

\* lineStations.findIndex(s => s.name === name): 0-based, -1 when absent
findIndex(lineStations, name) ==
    IF \E k \in 1..Len(lineStations) : lineStations[k] = name
    THEN (CHOOSE k \in 1..Len(lineStations) :
             /\ lineStations[k] = name
             /\ \A j \in 1..(k - 1) : lineStations[j] # name) - 1
    ELSE -1

\* lineStations[index].name with a 0-based index; reading past either end of
\* the array yields undefined in JavaScript
stationAt(lineStations, index) ==
    IF index >= 0 /\ index < Len(lineStations)
    THEN lineStations[index + 1]
    ELSE "undefined"

\* line === 'Western' ? 15 : line === 'Central Main' ? 15 : 10
\* 15 trains on Western, 10 on the other two lines
trainCountOf_westernOnly(line) ==
    IF line = "Western" THEN 15 ELSE 10

trainCountOf(line) ==
    IF line = "Western" THEN 15 ELSE IF line = "Central Main" THEN 15 ELSE 10

\* String(i + 1).padStart(3, '0') for the train numbers 1..15
padStart3(n) ==
    <<"001", "002", "003", "004", "005", "006", "007", "008", "009", "010",
      "011", "012", "013", "014", "015">>[n]

\* line.charAt(0)
charAt0(line) ==
    CASE line = "Western" -> "W"
      [] line = "Central Main" -> "C"
      [] line = "Trans-Harbour" -> "T"

\* `${line.charAt(0)}${String(i + 1).padStart(3, '0')}`
trainIdOf(line, i) == charAt0(line) \o padStart3(i + 1)

-----------------------------------------------------------------------------
(* Status thresholds *)

\* newDelay > 5 ? 'Critical' : newDelay > 2 ? 'Delayed' : 'On Time'
\* The order of tests of initializeTrains applied to a tick: Critical is never reported
statusOf_delayedFirst(delay) ==
    IF delay > DelayedThreshold THEN "Delayed"
    ELSE IF delay > CriticalThreshold THEN "Critical"
    ELSE "On Time"

statusOf(delay) ==
    IF delay > CriticalThreshold THEN "Critical"
    ELSE IF delay > DelayedThreshold THEN "Delayed"
    ELSE "On Time"

\* baseDelay > 2 ? 'Delayed' : baseDelay > 5 ? 'Critical' : 'On Time'
initialStatusOf(baseDelay) ==
    IF baseDelay > DelayedThreshold THEN "Delayed"
    ELSE IF baseDelay > CriticalThreshold THEN "Critical"
    ELSE "On Time"


-----------------------------------------------------------------------------
(* initializeTrains *)

\* The body of the for loop of initializeTrains for train i (0-based) of the
\* line with index lineIndex (0-based); now is Date.now()/60000, rPassengers
\* and rDelay are the Math.random() results behind basePassengers, baseDelay.
initializeTrain(lineIndex, i, now, rPassengers, rDelay) ==
    LET line == lines[lineIndex + 1]
        lineStations == lineStationsOf(line)
        \* progress * 60 = (Date.now()/60000 + lineIndex*20 + i*15) % 60
        progress60 == (now + lineIndex * 20 + i * 15) % 60
        \* stationProgress * 60
        stationProgress60 == progress60 * (Len(lineStations) - 1)
        currentIndex == stationProgress60 \div 60
        nextIndex == Min(currentIndex + 1, Len(lineStations) - 1)
        basePassengers == 60 * rPassengers + 200   \* floor(u*600 + 200), u = k/10
        baseDelay == 60 * rDelay                   \* u*3 minutes, u = k/10
    IN  [ id |-> trainIdOf(line, i),
          line |-> line,
          current |-> stationAt(lineStations, currentIndex),
          next |-> stationAt(lineStations, nextIndex),
          positionInSegment |-> stationProgress60 - currentIndex * 60,
          delay |-> baseDelay,
          status |-> initialStatusOf(baseDelay),
          passengers |-> basePassengers,
          direction |-> IF i % 2 = 0 THEN "UP" ELSE "DOWN" ]

\* initializeTrains, for the trains of `fleet`: a sequence of <<lineIndex, i>>
\* pairs in the order of the two nested loops.  rnd[k] holds the two random
\* draws of the k-th train.  A line with fewer than two stations gets no train.
initializeTrains(fleet, now, rnd) ==
    LET made == [k \in 1..Len(fleet) |->
                    initializeTrain(fleet[k][1], fleet[k][2], now,
                                    rnd[k].passengers, rnd[k].delay)]
    IN  SelectSeq(made, LAMBDA t : Len(lineStationsOf(t.line)) >= 2)

\* The whole registry of the program: 15 + 15 + 10 trains
fullFleet ==
    LET fleetOfLine(lineIndex) ==
            [i \in 1..trainCountOf(lines[lineIndex + 1]) |-> <<lineIndex, i - 1>>]
    IN  fleetOfLine(0) \o fleetOfLine(1) \o fleetOfLine(2)

-----------------------------------------------------------------------------
(* updateTrainPositions: the callback mapped over prevTrains *)

\* Indices after "reached next station": currentIndex = nextIndex, the next
\* index clamped to the last station, and the restart from the origin when the
\* new current index is the last one.  Result: <<currentIndex, nextIndex>>.
\* Arrival without the reset at the end of the line
arriveAt_noWrap(nextIndex, numStations) ==
    <<nextIndex, Min(nextIndex + 1, numStations - 1)>>

\* An arrival that ends the run at the terminal instead of wrapping
arriveAt_terminate(nextIndex, numStations) ==
    IF nextIndex >= numStations - 1
    THEN <<numStations - 1, numStations - 1>>
    ELSE <<nextIndex, nextIndex + 1>>

arriveAt(nextIndex, numStations) ==
    LET currentIndex == nextIndex
        clamped == Min(currentIndex + 1, numStations - 1)
    IN  IF currentIndex >= numStations - 1
        THEN <<0, 1>>
        ELSE <<currentIndex, clamped>>

\* Arrival tested with > 1.0: a train may rest at positionInSegment 1.0
advance_strict(positionInSegment, currentIndex, numStations) ==
    LET newPositionInSegment == positionInSegment + PositionIncrement
        nextIndex == currentIndex + 1
    IN  IF newPositionInSegment > PosScale
        THEN <<0, arriveAt(nextIndex, numStations)[1], arriveAt(nextIndex, numStations)[2]>>
        ELSE <<newPositionInSegment, currentIndex, nextIndex>>

\* Arrival that carries the surplus of progress into the next segment
advance_carry(positionInSegment, currentIndex, numStations) ==
    LET newPositionInSegment == positionInSegment + PositionIncrement
        nextIndex == currentIndex + 1
    IN  IF newPositionInSegment >= PosScale
        THEN <<newPositionInSegment - PosScale,
               arriveAt(nextIndex, numStations)[1], arriveAt(nextIndex, numStations)[2]>>
        ELSE <<newPositionInSegment, currentIndex, nextIndex>>

\* New <<positionInSegment, currentIndex, nextIndex>> of one train
advance(positionInSegment, currentIndex, numStations) ==
    LET newPositionInSegment == positionInSegment + PositionIncrement
        nextIndex == currentIndex + 1
    IN  IF newPositionInSegment >= PosScale
        THEN <<0, arriveAt(nextIndex, numStations)[1], arriveAt(nextIndex, numStations)[2]>>
        ELSE <<newPositionInSegment, currentIndex, nextIndex>>

\* The weights of weather and junctionCongestion taken for each other
delayMultiplier10_swapped(factors) ==
    10 + factors.rushHour * 5 + factors.weather * 4
       + factors.junctionCongestion * 3 + factors.equipmentReliability * 6

\* a multiplier that also weighs the festival crowds
delayMultiplier10_festival(factors) ==
    10 + factors.rushHour * 5 + factors.weather * 3
       + factors.junctionCongestion * 4 + factors.equipmentReliability * 6
       + factors.festivalCrowds * 2

\* delayMultiplier * 10 = 10 + 5 rushHour + 3 weather + 4 junction + 6 equipment
delayMultiplier10(factors) ==
    10 + factors.rushHour * 5 + factors.weather * 3
       + factors.junctionCongestion * 4 + factors.equipmentReliability * 6

\* train.delay + Math.random() * 0.5 * delayMultiplier, with u = rDelay/10:
\* u * 0.5 * (m10/10) minutes = rDelay * m10 / 200 minutes
newDelayOf(delay, factors, rDelay) == delay + rDelay * delayMultiplier10(factors)

\* Math.min(train.passengers + Math.floor(Math.random() * 50 - 20), 2000),
\* with u = rPassengers/50
newPassengersOf(passengers, rPassengers) ==
    Min(passengers + (rPassengers - 20), MaxPassengers)

\* The map callback: factors are the disruptionFactors the callback reads
updateTrain(train, factors, rDelay, rPassengers) ==
    LET lineStations == lineStationsOf(train.line)
        adv == advance(train.positionInSegment,
                       findIndex(lineStations, train.current), Len(lineStations))
        newDelay == newDelayOf(train.delay, factors, rDelay)
    IN  IF Len(lineStations) < 2 THEN train
        ELSE [train EXCEPT
                !.current = stationAt(lineStations, adv[2]),
                !.next = stationAt(lineStations, adv[3]),
                !.positionInSegment = adv[1],
                !.delay = newDelay,
                !.status = statusOf(newDelay),
                !.passengers = newPassengersOf(train.passengers, rPassengers)]

\* prevTrains.map(...), rnd[k] the two random draws of the k-th train
updateTrainPositions(prevTrains, factors, rnd) ==
    [k \in 1..Len(prevTrains) |->
        updateTrain(prevTrains[k], factors, rnd[k].delay, rnd[k].passengers)]

-----------------------------------------------------------------------------
(* performQuickAction: the callback mapped over prevTrains *)

\* swap without Math.max(0, ...)
quickActionOn_noFloor(train, action, trainId) ==
    IF train.id = trainId
    THEN CASE action = "hold" ->
                [train EXCEPT !.delay = train.delay + HoldDelay, !.status = "Delayed"]
           [] action = "swap" ->
                [train EXCEPT !.delay = train.delay - SwapDelay]
           [] action = "reroute" ->
                [train EXCEPT !.delay = train.delay + RerouteDelay, !.status = "Critical"]
           [] OTHER -> train
    ELSE train

\* without the test train.id === trainId
quickActionOn_anyId(train, action, trainId) ==
    CASE action = "hold" ->
            [train EXCEPT !.delay = train.delay + HoldDelay, !.status = "Delayed"]
      [] action = "swap" ->
            [train EXCEPT !.delay = Max(0, train.delay - SwapDelay)]
      [] action = "reroute" ->
            [train EXCEPT !.delay = train.delay + RerouteDelay, !.status = "Critical"]
      [] OTHER -> train

\* hold with the status derived from the new delay
quickActionOn_holdDerived(train, action, trainId) ==
    IF train.id = trainId
    THEN CASE action = "hold" ->
                [train EXCEPT !.delay = train.delay + HoldDelay,
                              !.status = statusOf(train.delay + HoldDelay)]
           [] action = "swap" ->
                [train EXCEPT !.delay = Max(0, train.delay - SwapDelay)]
           [] action = "reroute" ->
                [train EXCEPT !.delay = train.delay + RerouteDelay, !.status = "Critical"]
           [] OTHER -> train
    ELSE train

\* swap taking off the 3 minutes a hold adds
quickActionOn_swapThree(train, action, trainId) ==
    IF train.id = trainId
    THEN CASE action = "hold" ->
                [train EXCEPT !.delay = train.delay + HoldDelay, !.status = "Delayed"]
           [] action = "swap" ->
                [train EXCEPT !.delay = Max(0, train.delay - HoldDelay)]
           [] action = "reroute" ->
                [train EXCEPT !.delay = train.delay + RerouteDelay, !.status = "Critical"]
           [] OTHER -> train
    ELSE train

\* reroute with the status of a hold
quickActionOn_rerouteDelayed(train, action, trainId) ==
    IF train.id = trainId
    THEN CASE action = "hold" ->
                [train EXCEPT !.delay = train.delay + HoldDelay, !.status = "Delayed"]
           [] action = "swap" ->
                [train EXCEPT !.delay = Max(0, train.delay - SwapDelay)]
           [] action = "reroute" ->
                [train EXCEPT !.delay = train.delay + RerouteDelay, !.status = "Delayed"]
           [] OTHER -> train
    ELSE train

quickActionOn(train, action, trainId) ==
    IF train.id = trainId
    THEN CASE action = "hold" ->
                [train EXCEPT !.delay = train.delay + HoldDelay, !.status = "Delayed"]
           [] action = "swap" ->
                [train EXCEPT !.delay = Max(0, train.delay - SwapDelay)]
           [] action = "reroute" ->
                [train EXCEPT !.delay = train.delay + RerouteDelay, !.status = "Critical"]
           [] OTHER -> train
    ELSE train

\* action.toUpperCase()
toUpperCase(action) ==
    CASE action = "hold" -> "HOLD"
      [] action = "swap" -> "SWAP"
      [] action = "reroute" -> "REROUTE"
      [] action = "cancel" -> "CANCEL"

-----------------------------------------------------------------------------
(* addAiDecisionLog, addDisruptionFactor *)

\* [entry, ...prev.slice(0, 10)]
addAiDecisionLog_keep10(prev, message) ==
    <<message>> \o SubSeq(prev, 1, Min(LogKeep + 1, Len(prev)))

\* [entry, ...prev.slice(0, 9)]
addAiDecisionLog(prev, message) ==
    <<message>> \o SubSeq(prev, 1, Min(LogKeep, Len(prev)))

\* several addAiDecisionLog calls in a row, messages in call order
RECURSIVE addAiDecisionLogs(_, _)
addAiDecisionLogs(prev, messages) ==
    IF messages = << >> THEN prev
    ELSE addAiDecisionLogs(addAiDecisionLog(prev, Head(messages)), Tail(messages))

factorNames ==
    {"rushHour", "weather", "junctionCongestion", "equipmentReliability",
     "festivalCrowds", "platformStrain", "staffEfficiency", "externalDelays"}

\* { ...prev, [factor]: prev[factor] + 1 }
incrementFactor_noCap(prev, factor) ==
    [prev EXCEPT ![factor] = prev[factor] + 1]

\* an increment of the rush hour that strains the platforms as well
incrementFactor_coupled(prev, factor) ==
    IF factor = "rushHour"
    THEN [prev EXCEPT !.rushHour = Min(prev.rushHour + 1, MaxFactorLevel),
                      !.platformStrain = Min(prev.platformStrain + 1, MaxFactorLevel)]
    ELSE [prev EXCEPT ![factor] = Min(prev[factor] + 1, MaxFactorLevel)]

\* { ...prev, [factor]: Math.min(prev[factor] + 1, 5) }
incrementFactor(prev, factor) ==
    [prev EXCEPT ![factor] = Min(prev[factor] + 1, MaxFactorLevel)]

noFactors == [f \in factorNames |-> 0]

-----------------------------------------------------------------------------
(* Closures.  Every callback armed by a handler closes over the state values *)
(* of the render in which the handler ran; functional updates (setX(prev =>  *)
(* ...)) and refs see the current values instead.                            *)

\* The state values a handler of the current render sees
renderScope ==
    [ isSimulationRunning |-> isSimulationRunning,
      trains |-> trains,
      disruptionFactors |-> disruptionFactors,
      aiActive |-> aiActive,
      aiDecisions |-> aiDecisions,
      aiOptimizations |-> aiOptimizations ]

\* The part of the render's state values that a callback reads
scopeOf(names) == [n \in names |-> renderScope[n]]

-----------------------------------------------------------------------------
(* Log lines *)

aiActions ==
    <<"Analyzing passenger flow patterns at Dadar junction",
      "Optimizing signal timing for Western Line",
      "Detecting potential bottleneck at Kurla station",
      "Rerouting Train WR-401 to avoid congestion",
      "Implementing dynamic scheduling adjustments",
      "Monitoring weather impact on Central Line",
      "Predicting rush hour surge in 15 minutes",
      "Coordinating with traffic control systems",
      "Optimizing platform allocation at CST",
      "Reducing dwell time at high-traffic stations">>

systemLogs ==
    <<"[MONITOR] Scanning all active train positions",
      "[ANALYSIS] Processing passenger density data",
      "[PREDICT] Forecasting next 10-minute traffic flow",
      "[OPTIMIZE] Adjusting signal coordination",
      "[LEARN] Updating ML models with real-time data">>

activationLogs ==
    <<"[SYSTEM] AI Optimization Suite Activated",
      "[SYSTEM] Initializing neural networks...",
      "[SYSTEM] Loading Mumbai Railway data patterns...",
      "[SYSTEM] AI systems fully operational">>

deactivationLogs ==
    <<"[SYSTEM] AI Optimization Suite Deactivated",
      "[SYSTEM] Switching to manual control mode">>

initialLog ==
    <<"[SYSTEM] AI Optimization Suite Initialized",
      "[READY] Awaiting activation command...">>

\* `${savedTime}` for savedTime in 2..9
digitOf(n) == <<"0", "1", "2", "3", "4", "5", "6", "7", "8", "9">>[n + 1]

\* `[ACTION] ${action.toUpperCase()} applied to ${trainId}`
\* A log line that names the action only
actionLogLine_noId(action, trainId) ==
    "[ACTION] " \o toUpperCase(action)

actionLogLine(action, trainId) ==
    "[ACTION] " \o toUpperCase(action) \o " applied to " \o trainId

-----------------------------------------------------------------------------
(* Initial state: the useState / useRef initial values *)

Init ==
    /\ isSimulationRunning = FALSE
    /\ trains = << >>
    /\ trainCount = 0
    /\ passengerCount = 0
    /\ avgDelay = <<0, 1>>            \* a fraction <<numerator, denominator>>
    /\ efficiency = <<100, 1>>
    /\ aiActive = FALSE
    /\ aiDecisions = 0
    /\ aiPreventedDelays = 0
    /\ aiOptimizations = 0
    /\ aiPerformance = 0              \* in tenths
    /\ aiDecisionLog = initialLog
    /\ disruptionFactors = noFactors
    /\ simulationIntervalRef = NoTimer
    /\ trackingIntervalRef = NoTimer
    /\ advancedSystemsIntervalRef = NoTimer
    /\ aiLogIntervalRef = NoTimer
    /\ animationFrameRef = NoTimer
    /\ timeouts = << >>
    /\ ticks = 0
    /\ callbacks = 0
    /\ clicks = 0

-----------------------------------------------------------------------------
(* Handlers and timer callbacks *)

\* Start button (disabled while isSimulationRunning) -> startSimulation.
\* trackingPaused is never set, so the tracking interval is always armed.
\* startSimulation behind a Start button that is never disabled
startSimulation_alwaysEnabled(fleet, now, rnd, maxClicks) ==
    /\ clicks < maxClicks
    /\ clicks' = clicks + 1
    /\ isSimulationRunning' = TRUE
    /\ trains' = initializeTrains(fleet, now, rnd)
    /\ animationFrameRef' = Timer(scopeOf({"isSimulationRunning", "disruptionFactors"}))
    /\ simulationIntervalRef' = Timer(scopeOf({"disruptionFactors"}))
    /\ trackingIntervalRef' = Timer(scopeOf({"trains"}))
    /\ advancedSystemsIntervalRef' =
          Timer(scopeOf({"aiActive", "aiDecisions", "aiOptimizations"}))
    /\ UNCHANGED <<trainCount, passengerCount, avgDelay, efficiency, aiActive,
                   aiDecisions, aiPreventedDelays, aiOptimizations, aiPerformance,
                   aiDecisionLog, disruptionFactors, aiLogIntervalRef, timeouts, ticks, callbacks>>

startSimulation(fleet, now, rnd, maxClicks) ==
    /\ ~isSimulationRunning
    /\ clicks < maxClicks
    /\ clicks' = clicks + 1
    /\ isSimulationRunning' = TRUE
    /\ trains' = initializeTrains(fleet, now, rnd)
    /\ animationFrameRef' = Timer(scopeOf({"isSimulationRunning", "disruptionFactors"}))
    /\ simulationIntervalRef' = Timer(scopeOf({"disruptionFactors"}))
    /\ trackingIntervalRef' = Timer(scopeOf({"trains"}))
    /\ advancedSystemsIntervalRef' =
          Timer(scopeOf({"aiActive", "aiDecisions", "aiOptimizations"}))
    /\ UNCHANGED <<trainCount, passengerCount, avgDelay, efficiency, aiActive,
                   aiDecisions, aiPreventedDelays, aiOptimizations, aiPerformance,
                   aiDecisionLog, disruptionFactors, aiLogIntervalRef, timeouts, ticks, callbacks>>

\* stopSimulation without the clearInterval of the tracking interval
stopSimulation_keepTracking(maxClicks) ==
    /\ clicks < maxClicks
    /\ clicks' = clicks + 1
    /\ isSimulationRunning' = FALSE
    /\ trains' = << >>
    /\ animationFrameRef' = NoTimer
    /\ simulationIntervalRef' = NoTimer
    /\ advancedSystemsIntervalRef' = NoTimer
    /\ aiLogIntervalRef' = NoTimer
    /\ trainCount' = 0
    /\ passengerCount' = 0
    /\ avgDelay' = <<0, 1>>
    /\ efficiency' = <<100, 1>>
    /\ UNCHANGED <<aiActive, aiDecisions, aiPreventedDelays, aiOptimizations,
                   aiPerformance, aiDecisionLog, disruptionFactors, timeouts,
                   trackingIntervalRef, ticks, callbacks>>

\* Stop button (always enabled) -> stopSimulation
stopSimulation(maxClicks) ==
    /\ clicks < maxClicks
    /\ clicks' = clicks + 1
    /\ isSimulationRunning' = FALSE
    /\ trains' = << >>
    /\ animationFrameRef' = NoTimer
    /\ simulationIntervalRef' = NoTimer
    /\ trackingIntervalRef' = NoTimer
    /\ advancedSystemsIntervalRef' = NoTimer
    /\ aiLogIntervalRef' = NoTimer
    /\ trainCount' = 0
    /\ passengerCount' = 0
    /\ avgDelay' = <<0, 1>>
    /\ efficiency' = <<100, 1>>
    /\ UNCHANGED <<aiActive, aiDecisions, aiPreventedDelays, aiOptimizations,
                   aiPerformance, aiDecisionLog, disruptionFactors, timeouts,
                   ticks, callbacks>>

\* The 1000 ms interval armed by startSimulation: updateTrainPositions() of the
\* render that armed it (its disruptionFactors), applied to the current trains.
positionTick(rnd, maxTicks) ==
    /\ simulationIntervalRef.armed
    /\ ticks < maxTicks
    /\ trains' = updateTrainPositions(trains, simulationIntervalRef.scope.disruptionFactors, rnd)
    /\ ticks' = ticks + 1
    /\ UNCHANGED <<isSimulationRunning, trainCount, passengerCount, avgDelay,
                   efficiency, aiActive, aiDecisions, aiPreventedDelays,
                   aiOptimizations, aiPerformance, aiDecisionLog, disruptionFactors,
                   simulationIntervalRef, trackingIntervalRef,
                   advancedSystemsIntervalRef, aiLogIntervalRef, animationFrameRef,
                   timeouts, callbacks, clicks>>

\* performQuickAction(action, trainId)
performQuickAction(action, trainId, maxClicks) ==
    /\ clicks < maxClicks
    /\ clicks' = clicks + 1
    /\ trains' = [k \in 1..Len(trains) |-> quickActionOn(trains[k], action, trainId)]
    /\ aiDecisionLog' = addAiDecisionLog(aiDecisionLog, actionLogLine(action, trainId))
    /\ UNCHANGED <<isSimulationRunning, trainCount, passengerCount, avgDelay,
                   efficiency, aiActive, aiDecisions, aiPreventedDelays,
                   aiOptimizations, aiPerformance, disruptionFactors,
                   simulationIntervalRef, trackingIntervalRef,
                   advancedSystemsIntervalRef, aiLogIntervalRef, animationFrameRef,
                   timeouts, ticks, callbacks>>

\* addDisruptionFactor(factor)
addDisruptionFactor(factor, maxClicks) ==
    /\ clicks < maxClicks
    /\ clicks' = clicks + 1
    /\ disruptionFactors' = incrementFactor(disruptionFactors, factor)
    /\ UNCHANGED <<isSimulationRunning, trains, trainCount, passengerCount, avgDelay,
                   efficiency, aiActive, aiDecisions, aiPreventedDelays,
                   aiOptimizations, aiPerformance, aiDecisionLog,
                   simulationIntervalRef, trackingIntervalRef,
                   advancedSystemsIntervalRef, aiLogIntervalRef, animationFrameRef,
                   timeouts, ticks, callbacks>>

\* updateDetailedTracking() of the render that armed the tracking interval:
\* it reads that render's trains
trackingTick(maxCallbacks) ==
    /\ trackingIntervalRef.armed
    /\ callbacks < maxCallbacks
    /\ callbacks' = callbacks + 1
    /\ LET ts == trackingIntervalRef.scope.trains
           sumOf(f) == LET RECURSIVE sum(_)
                           sum(k) == IF k = 0 THEN 0 ELSE f[k] + sum(k - 1)
                       IN  sum(Len(ts))
       IN  IF Len(ts) > 0
           THEN /\ trainCount' = Len(ts)
                /\ passengerCount' = sumOf([k \in 1..Len(ts) |-> ts[k].passengers])
                /\ avgDelay' = <<sumOf([k \in 1..Len(ts) |-> ts[k].delay]), Len(ts)>>
                /\ efficiency' =
                      <<100 * Cardinality({k \in 1..Len(ts) : ts[k].status = "On Time"}),
                        Len(ts)>>
           ELSE UNCHANGED <<trainCount, passengerCount, avgDelay, efficiency>>
    /\ UNCHANGED <<isSimulationRunning, trains, aiActive, aiDecisions,
                   aiPreventedDelays, aiOptimizations, aiPerformance, aiDecisionLog,
                   disruptionFactors, simulationIntervalRef, trackingIntervalRef,
                   advancedSystemsIntervalRef, aiLogIntervalRef, animationFrameRef,
                   timeouts, ticks, clicks>>

\* animate testing the current isSimulationRunning (as if read through a ref)
animate_current(rnd, maxCallbacks) ==
    /\ animationFrameRef.armed
    /\ callbacks < maxCallbacks
    /\ callbacks' = callbacks + 1
    /\ IF isSimulationRunning
       THEN trains' = updateTrainPositions(
                          trains, animationFrameRef.scope.disruptionFactors, rnd)
       ELSE UNCHANGED trains
    /\ UNCHANGED <<isSimulationRunning, trainCount, passengerCount, avgDelay,
                   efficiency, aiActive, aiDecisions, aiPreventedDelays,
                   aiOptimizations, aiPerformance, aiDecisionLog, disruptionFactors,
                   simulationIntervalRef, trackingIntervalRef,
                   advancedSystemsIntervalRef, aiLogIntervalRef, animationFrameRef,
                   timeouts, ticks, clicks>>

\* The requestAnimationFrame callback `animate` of the render that started the
\* animation.  (animationFrame and lastUpdateTime, display values, are not
\* modelled.)  It calls updateTrainPositions() when its isSimulationRunning holds.
animate(rnd, maxCallbacks) ==
    /\ animationFrameRef.armed
    /\ callbacks < maxCallbacks
    /\ callbacks' = callbacks + 1
    /\ IF animationFrameRef.scope.isSimulationRunning
       THEN trains' = updateTrainPositions(
                          trains, animationFrameRef.scope.disruptionFactors, rnd)
       ELSE UNCHANGED trains
    /\ UNCHANGED <<isSimulationRunning, trainCount, passengerCount, avgDelay,
                   efficiency, aiActive, aiDecisions, aiPreventedDelays,
                   aiOptimizations, aiPerformance, aiDecisionLog, disruptionFactors,
                   simulationIntervalRef, trackingIntervalRef,
                   advancedSystemsIntervalRef, aiLogIntervalRef, animationFrameRef,
                   timeouts, ticks, clicks>>

\* The log lines one round of updateAdvancedSystems appends synchronously.
\* round: [newDecisions, numLogs, prevent, optimize, savedTime, critical], the
\* outcomes of its random draws.
roundLogLines(round) ==
    (IF round.prevent
     THEN <<"[ALERT] Prevented potential 4-min delay at junction">> ELSE << >>)
    \o (IF round.optimize
        THEN <<"[OPTIMIZATION] Route optimized, saved " \o digitOf(round.savedTime)
                 \o " minutes">>
        ELSE << >>)
    \o (IF round.critical
        THEN <<"[CRITICAL] Emergency protocol activated for overcrowding">>
        ELSE << >>)

\* Math.min(15, aiDecisions * 0.1 + aiOptimizations * 0.5), in tenths, on the
\* values the calling render sees
performanceGain(scope) == Min(150, scope.aiDecisions + 5 * scope.aiOptimizations)

\* updateAdvancedSystems() as defined in the render with state values `scope`;
\* pending: the setTimeout callbacks pending when it is called.  maxDecisions
\* and maxPending bound the decision counter and the pending callbacks.
updateAdvancedSystems(scope, round, pending, maxDecisions, maxPending) ==
    IF scope.aiActive
    THEN /\ aiDecisions + round.newDecisions <= maxDecisions
         /\ Len(pending) + round.numLogs <= maxPending
         /\ aiDecisions' = aiDecisions + round.newDecisions
         /\ timeouts' = pending \o [k \in 1..round.numLogs |-> [kind |-> "narration"]]
         /\ aiPreventedDelays' = aiPreventedDelays + (IF round.prevent THEN 1 ELSE 0)
         /\ aiOptimizations' = aiOptimizations + (IF round.optimize THEN 1 ELSE 0)
         /\ aiDecisionLog' = addAiDecisionLogs(aiDecisionLog, roundLogLines(round))
         /\ aiPerformance' = performanceGain(scope)
    ELSE /\ timeouts' = pending
         /\ UNCHANGED <<aiDecisions, aiPreventedDelays, aiOptimizations,
                        aiDecisionLog, aiPerformance>>

\* A decision cycle whose round also applies a reroute to W001
advancedSystemsTick_reroutes(round, maxDecisions, maxPending, maxCallbacks) ==
    /\ advancedSystemsIntervalRef.armed
    /\ callbacks < maxCallbacks
    /\ callbacks' = callbacks + 1
    /\ updateAdvancedSystems(advancedSystemsIntervalRef.scope, round, timeouts,
                             maxDecisions, maxPending)
    /\ trains' = IF advancedSystemsIntervalRef.scope.aiActive
                 THEN [k \in 1..Len(trains) |-> quickActionOn(trains[k], "reroute", "W001")]
                 ELSE trains
    /\ UNCHANGED <<isSimulationRunning, trainCount, passengerCount, avgDelay,
                   efficiency, aiActive, disruptionFactors, simulationIntervalRef,
                   trackingIntervalRef, advancedSystemsIntervalRef, aiLogIntervalRef,
                   animationFrameRef, ticks, clicks>>

\* The 6000 ms interval armed by startSimulation
advancedSystemsTick(round, maxDecisions, maxPending, maxCallbacks) ==
    /\ advancedSystemsIntervalRef.armed
    /\ callbacks < maxCallbacks
    /\ callbacks' = callbacks + 1
    /\ updateAdvancedSystems(advancedSystemsIntervalRef.scope, round, timeouts,
                             maxDecisions, maxPending)
    /\ UNCHANGED <<isSimulationRunning, trains, trainCount, passengerCount, avgDelay,
                   efficiency, aiActive, disruptionFactors, simulationIntervalRef,
                   trackingIntervalRef, advancedSystemsIntervalRef, aiLogIntervalRef,
                   animationFrameRef, ticks, clicks>>

\* A pending setTimeout callback fires: timeouts[k].  action: the index drawn
\* by a narration callback; round: the draws of a deferred updateAdvancedSystems.
timeoutFires(k, action, round, maxDecisions, maxPending, maxCallbacks) ==
    /\ k \in 1..Len(timeouts)
    /\ callbacks < maxCallbacks
    /\ callbacks' = callbacks + 1
    /\ LET rest == SubSeq(timeouts, 1, k - 1) \o SubSeq(timeouts, k + 1, Len(timeouts))
       IN  IF timeouts[k].kind = "narration"
           THEN \* addAiDecisionLog(`[AI] ${action}`)
                /\ aiDecisionLog' =
                       addAiDecisionLog(aiDecisionLog, "[AI] " \o aiActions[action])
                /\ timeouts' = rest
                /\ UNCHANGED <<aiDecisions, aiPreventedDelays, aiOptimizations,
                               aiPerformance>>
           ELSE \* setTimeout(() => updateAdvancedSystems(), 1000) of toggleAI
                updateAdvancedSystems(timeouts[k].scope, round, rest,
                                      maxDecisions, maxPending)
    /\ UNCHANGED <<isSimulationRunning, trains, trainCount, passengerCount, avgDelay,
                   efficiency, aiActive, disruptionFactors, simulationIntervalRef,
                   trackingIntervalRef, advancedSystemsIntervalRef, aiLogIntervalRef,
                   animationFrameRef, ticks, clicks>>

\* The 2000 ms interval armed by toggleAI: with probability 0.6 it appends one
\* of systemLogs.  log = 0: the draw was <= 0.4 and nothing is appended.
aiLogTick(log, maxCallbacks) ==
    /\ aiLogIntervalRef.armed
    /\ callbacks < maxCallbacks
    /\ callbacks' = callbacks + 1
    /\ aiDecisionLog' = IF log = 0 THEN aiDecisionLog
                        ELSE addAiDecisionLog(aiDecisionLog, systemLogs[log])
    /\ UNCHANGED <<isSimulationRunning, trains, trainCount, passengerCount, avgDelay,
                   efficiency, aiActive, aiDecisions, aiPreventedDelays,
                   aiOptimizations, aiPerformance, disruptionFactors,
                   simulationIntervalRef, trackingIntervalRef,
                   advancedSystemsIntervalRef, aiLogIntervalRef, animationFrameRef,
                   timeouts, ticks, clicks>>

\* ACTIVATE AI / DEACTIVATE AI buttons -> toggleAI (one of the two is enabled)
toggleAI(maxPending, maxClicks) ==
    /\ clicks < maxClicks
    /\ clicks' = clicks + 1
    /\ aiActive' = ~aiActive
    /\ IF ~aiActive
       THEN /\ Len(timeouts) < maxPending
            /\ aiDecisionLog' = addAiDecisionLogs(aiDecisionLog, activationLogs)
            /\ aiLogIntervalRef' = Timer(scopeOf({}))
            /\ timeouts' = Append(timeouts, [kind |-> "advanced",
                                  scope |-> scopeOf({"aiActive", "aiDecisions",
                                                     "aiOptimizations"})])
       ELSE /\ aiDecisionLog' = addAiDecisionLogs(aiDecisionLog, deactivationLogs)
            /\ aiLogIntervalRef' = NoTimer
            /\ UNCHANGED timeouts
    /\ UNCHANGED <<isSimulationRunning, trains, trainCount, passengerCount, avgDelay,
                   efficiency, aiDecisions, aiPreventedDelays, aiOptimizations,
                   aiPerformance, disruptionFactors, simulationIntervalRef,
                   trackingIntervalRef, advancedSystemsIntervalRef, animationFrameRef,
                   ticks, callbacks>>

-----------------------------------------------------------------------------
(* Next-state relation over the inputs `in` of a specification:               *)
(*   fleet, nows             the trains followed (<<lineIndex, i>> pairs) and *)
(*                           the values of Date.now()/60000                   *)
(*   initRnd, tickRnd        per followed train, the random draws of          *)
(*                           initializeTrains and of a position tick          *)
(*   actions, ids            the arguments of performQuickAction              *)
(*   factors                 the arguments of addDisruptionFactor             *)
(*   rounds, narrations, systemLogs   the random draws of the AI callbacks    *)
(*   maxClicks, maxTicks, maxCallbacks, maxDecisions, maxPending   bounds     *)

\* The choices of one draw per train, sets[k] being the draws of train k
drawsOf(sets) ==
    {rnd \in [1..Len(sets) -> UNION {sets[k] : k \in 1..Len(sets)}] :
        \A k \in 1..Len(sets) : rnd[k] \in sets[k]}

NextOf(in) ==
    \/ \E now \in in.nows : \E rnd \in drawsOf(in.initRnd) :
          startSimulation(in.fleet, now, rnd, in.maxClicks)
    \/ stopSimulation(in.maxClicks)
    \/ \E rnd \in drawsOf(in.tickRnd) : positionTick(rnd, in.maxTicks)
    \/ \E action \in in.actions : \E trainId \in in.ids :
          performQuickAction(action, trainId, in.maxClicks)
    \/ \E factor \in in.factors : addDisruptionFactor(factor, in.maxClicks)
    \/ trackingTick(in.maxCallbacks)
    \/ \E rnd \in drawsOf(in.tickRnd) : animate(rnd, in.maxCallbacks)
    \/ \E round \in in.rounds :
          advancedSystemsTick(round, in.maxDecisions, in.maxPending, in.maxCallbacks)
    \/ \E k \in 1..Len(timeouts) : \E action \in in.narrations : \E round \in in.rounds :
          timeoutFires(k, action, round, in.maxDecisions, in.maxPending, in.maxCallbacks)
    \/ \E log \in in.systemLogs : aiLogTick(log, in.maxCallbacks)
    \/ toggleAI(in.maxPending, in.maxClicks)

-----------------------------------------------------------------------------
(* Bounds and inputs of the specifications *)

MaxClicks == 3
MaxTicks == 2
MaxCallbacks == 1
MaxDecisions == 6
MaxPending == 2

\* A quiet round and a round in which every random branch is taken
quietRound ==
    [newDecisions |-> 1, numLogs |-> 1, prevent |-> FALSE, optimize |-> FALSE,
     savedTime |-> 2, critical |-> FALSE]
busyRound ==
    [newDecisions |-> 5, numLogs |-> 2, prevent |-> TRUE, optimize |-> TRUE,
     savedTime |-> 9, critical |-> TRUE]

\* Random draws: the least and a large one
lowInit == [passengers |-> 0, delay |-> 0]      \* 200 passengers, no delay
highInit == [passengers |-> 9, delay |-> 7]     \* 740 passengers, 2.1 minutes
lowTick == [delay |-> 0, passengers |-> 0]      \* no added delay, 20 passengers fewer
highTick == [delay |-> 9, passengers |-> 49]    \* 0.9 of the largest delay, 29 more

(* Spec: W001 with two choices per random draw and T010 with one; every       *)
(* quick action on a train of the registry and on an id that is not in it.    *)
(* With Date.now()/60000 = 23 (modulo 60) W001 starts one tick before its     *)
(* next station.                                                              *)
SpecInputs ==
    [ fleet |-> << <<0, 0>>, <<2, 9>> >>,
      nows |-> {23},
      initRnd |-> << {lowInit, highInit}, {lowInit} >>,
      tickRnd |-> << {lowTick, highTick}, {lowTick} >>,
      actions |-> {"hold", "swap", "reroute"},
      ids |-> {"W001", "W999"},
      factors |-> {"rushHour"},
      rounds |-> {quietRound, busyRound},
      narrations |-> {1},
      systemLogs |-> {1},
      maxClicks |-> MaxClicks,
      maxTicks |-> MaxTicks,
      maxCallbacks |-> MaxCallbacks,
      maxDecisions |-> MaxDecisions,
      maxPending |-> MaxPending ]

Next == NextOf(SpecInputs)

Spec == Init /\ [][Next]_vars

(* SpecMove: one train per line followed over many position ticks, with       *)
(* fixed random draws: W001, C001 and T010.  With Date.now()/60000 = 4        *)
(* (modulo 60) T010 starts four ticks before the last station of its line;    *)
(* with 51, C001 starts at positionInSegment 0.95.                            *)
MoveClicks == 3
MoveTicks == 21
MoveCallbacks == 1

MoveInputs ==
    [ fleet |-> << <<0, 0>>, <<1, 0>>, <<2, 9>> >>,
      nows |-> {4, 51},
      initRnd |-> << {lowInit}, {lowInit}, {lowInit} >>,
      tickRnd |-> << {lowTick}, {lowTick}, {lowTick} >>,
      actions |-> {"swap"},
      ids |-> {"W001"},
      factors |-> {"rushHour"},
      rounds |-> {quietRound},
      narrations |-> {1},
      systemLogs |-> {1},
      maxClicks |-> MoveClicks,
      maxTicks |-> MoveTicks,
      maxCallbacks |-> MoveCallbacks,
      maxDecisions |-> MaxDecisions,
      maxPending |-> MaxPending ]

NextMove == NextOf(MoveInputs)

SpecMove == Init /\ [][NextMove]_vars

(* SpecFactors: enough clicks to raise a factor to its cap and click again.   *)
FactorClicks == 6
FactorTicks == 1
FactorCallbacks == 1

FactorInputs ==
    [ fleet |-> << <<0, 0>> >>,
      nows |-> {4},
      initRnd |-> << {lowInit} >>,
      tickRnd |-> << {highTick} >>,
      actions |-> {"swap"},
      ids |-> {"W001"},
      factors |-> {"rushHour", "festivalCrowds"},
      rounds |-> {quietRound},
      narrations |-> {1},
      systemLogs |-> {1},
      maxClicks |-> FactorClicks,
      maxTicks |-> FactorTicks,
      maxCallbacks |-> FactorCallbacks,
      maxDecisions |-> MaxDecisions,
      maxPending |-> MaxPending ]

NextFactors == NextOf(FactorInputs)

SpecFactors == Init /\ [][NextFactors]_vars

(* SpecAI: the timers of the AI suite, with one train and fixed draws for it: *)
(* enough callbacks for a round to schedule a narration line and for that     *)
(* line to be appended later.                                                 *)
AiClicks == 3
AiTicks == 1
AiCallbacks == 2

AiInputs ==
    [ fleet |-> << <<0, 0>> >>,
      nows |-> {23},
      initRnd |-> << {lowInit} >>,
      tickRnd |-> << {highTick} >>,
      actions |-> {"swap"},
      ids |-> {"W001"},
      factors |-> {"rushHour"},
      rounds |-> {quietRound, busyRound},
      narrations |-> {1},
      systemLogs |-> {0, 1},
      maxClicks |-> AiClicks,
      maxTicks |-> AiTicks,
      maxCallbacks |-> AiCallbacks,
      maxDecisions |-> MaxDecisions,
      maxPending |-> MaxPending ]

NextAI == NextOf(AiInputs)

SpecAI == Init /\ [][NextAI]_vars

(* SpecFleet: the whole registry of 40 trains, with fixed random draws.        *)
FleetClicks == 3
FleetTicks == 1
FleetCallbacks == 1

FleetInputs ==
    [ fleet |-> fullFleet,
      nows |-> {23},
      initRnd |-> [k \in 1..Len(fullFleet) |-> {lowInit}],
      tickRnd |-> [k \in 1..Len(fullFleet) |-> {highTick}],
      actions |-> {"hold"},
      ids |-> {"C008"},
      factors |-> {"weather"},
      rounds |-> {quietRound},
      narrations |-> {1},
      systemLogs |-> {1},
      maxClicks |-> FleetClicks,
      maxTicks |-> FleetTicks,
      maxCallbacks |-> FleetCallbacks,
      maxDecisions |-> MaxDecisions,
      maxPending |-> MaxPending ]

NextFleet == NextOf(FleetInputs)

SpecFleet == Init /\ [][NextFleet]_vars

(* SpecMultiplier: position ticks from each state in which the simulation    *)
(* has just been started after the four factors that weigh on the delay were  *)
(* raised to any levels in 0..5 (one click per level, then Start).            *)
MultTicks == 1

multiplierLevels ==
    {[noFactors EXCEPT !.rushHour = a, !.weather = b,
                       !.junctionCongestion = c, !.equipmentReliability = d] :
        a \in 0..MaxFactorLevel, b \in 0..MaxFactorLevel,
        c \in 0..MaxFactorLevel, d \in 0..MaxFactorLevel}

MultiplierInputs ==
    [ fleet |-> << <<0, 0>> >>,
      now |-> 23,
      initRnd |-> << lowInit >>,
      tickRnd |-> << {lowTick, highTick} >>,
      maxTicks |-> MultTicks ]

InitMultiplier ==
    \E f \in multiplierLevels :
        /\ isSimulationRunning = TRUE
        /\ trains = initializeTrains(MultiplierInputs.fleet, MultiplierInputs.now,
                                     MultiplierInputs.initRnd)
        /\ trainCount = 0
        /\ passengerCount = 0
        /\ avgDelay = <<0, 1>>
        /\ efficiency = <<100, 1>>
        /\ aiActive = FALSE
        /\ aiDecisions = 0
        /\ aiPreventedDelays = 0
        /\ aiOptimizations = 0
        /\ aiPerformance = 0
        /\ aiDecisionLog = initialLog
        /\ disruptionFactors = f
        /\ simulationIntervalRef = Timer([disruptionFactors |-> f])
        /\ trackingIntervalRef = Timer([trains |-> << >>])
        /\ advancedSystemsIntervalRef =
              Timer([aiActive |-> FALSE, aiDecisions |-> 0, aiOptimizations |-> 0])
        /\ aiLogIntervalRef = NoTimer
        /\ animationFrameRef =
              Timer([isSimulationRunning |-> FALSE, disruptionFactors |-> f])
        /\ timeouts = << >>
        /\ ticks = 0
        /\ callbacks = 0
        /\ clicks = f.rushHour + f.weather + f.junctionCongestion
                      + f.equipmentReliability + 1

NextMultiplier ==
    \E rnd \in drawsOf(MultiplierInputs.tickRnd) :
        positionTick(rnd, MultiplierInputs.maxTicks)

SpecMultiplier == InitMultiplier /\ [][NextMultiplier]_vars

-----------------------------------------------------------------------------
(* Properties *)

\* The position interval as it fires for as long as it stays armed: the
\* callback of positionTick with no bound on the number of firings
positionTickUnbounded(rnd) ==
    /\ simulationIntervalRef.armed
    /\ trains' = updateTrainPositions(trains, simulationIntervalRef.scope.disruptionFactors, rnd)
    /\ UNCHANGED <<isSimulationRunning, trainCount, passengerCount, avgDelay,
                   efficiency, aiActive, aiDecisions, aiPreventedDelays,
                   aiOptimizations, aiPerformance, aiDecisionLog, disruptionFactors,
                   simulationIntervalRef, trackingIntervalRef,
                   advancedSystemsIntervalRef, aiLogIntervalRef, animationFrameRef,
                   timeouts, ticks, callbacks, clicks>>

calmTick == [delay |-> 0, passengers |-> 20]    \* no added delay, as many passengers
crowdTick == [delay |-> 0, passengers |-> 49]   \* no added delay, 29 more

\* A running simulation left to its position interval: W001 and T010, started
\* at either minute, delays constant, passengers constant on W001 and filling
\* up on T010
LiveInputs ==
    [ fleet |-> << <<0, 0>>, <<2, 9>> >>,
      nows |-> {4, 23},
      initRnd |-> << lowInit, lowInit >>,
      tickRnd |-> << {calmTick}, {crowdTick} >> ]

\* The state right after startSimulation from the initial state
InitLive ==
    \E now \in LiveInputs.nows :
        /\ isSimulationRunning = TRUE
        /\ trains = initializeTrains(LiveInputs.fleet, now, LiveInputs.initRnd)
        /\ trainCount = 0
        /\ passengerCount = 0
        /\ avgDelay = <<0, 1>>
        /\ efficiency = <<100, 1>>
        /\ aiActive = FALSE
        /\ aiDecisions = 0
        /\ aiPreventedDelays = 0
        /\ aiOptimizations = 0
        /\ aiPerformance = 0
        /\ aiDecisionLog = initialLog
        /\ disruptionFactors = noFactors
        /\ simulationIntervalRef = Timer([disruptionFactors |-> noFactors])
        /\ trackingIntervalRef = Timer([trains |-> << >>])
        /\ advancedSystemsIntervalRef =
              Timer([aiActive |-> FALSE, aiDecisions |-> 0, aiOptimizations |-> 0])
        /\ aiLogIntervalRef = NoTimer
        /\ animationFrameRef =
              Timer([isSimulationRunning |-> FALSE, disruptionFactors |-> noFactors])
        /\ timeouts = << >>
        /\ ticks = 0
        /\ callbacks = 0
        /\ clicks = 1

NextLive ==
    \E rnd \in drawsOf(LiveInputs.tickRnd) : positionTickUnbounded(rnd)

\* setInterval(..., 1000) keeps firing the callback until it is cleared
SpecLive == InitLive /\ [][NextLive]_vars /\ WF_vars(NextLive)

\* 0-based index of the station called name on the line of train, -1 if absent
indexIn(train, name) == findIndex(lineStationsOf(train.line), name)

lastIndexOf(train) == Len(lineStationsOf(train.line)) - 1

hasTrain(id) == \E k \in 1..Len(trains) : trains[k].id = id

trainWithId(id) == trains[CHOOSE k \in 1..Len(trains) : trains[k].id = id]

\* a position tick is the only step that changes ticks
isPositionTick == ticks' = ticks + 1

\* C1 (SpecMove): in every reachable state every train has 0 <= segment
\* progress < 1, a current station different from its next station, and both
\* stations at indices within the station list of its line.
C1_PositionInvariant ==
    \A k \in 1..Len(trains) :
        LET t == trains[k]
        IN  /\ 0 <= t.positionInSegment
            /\ t.positionInSegment < PosScale
            /\ t.current # t.next
            /\ indexIn(t, t.current) \in 0..lastIndexOf(t)
            /\ indexIn(t, t.next) \in 0..lastIndexOf(t)

\* C1 witness: after start, ticks and a quick action, C001 has arrived at its
\* sixth station from progress 0.95 of the segment before, W001 is in a segment
C1_Witness ==
    /\ hasTrain("C001") /\ hasTrain("W001")
    /\ ticks > 0
    /\ Head(aiDecisionLog) = "[ACTION] SWAP applied to W001"
    /\ indexIn(trainWithId("C001"), trainWithId("C001").current) = 5
    /\ trainWithId("C001").positionInSegment = 0
    /\ trainWithId("W001").positionInSegment > 0

\* C2 (Spec): after every position tick every train's status is Critical iff
\* its delay is above 5 minutes, Delayed iff its delay is above 2 and at most
\* 5 minutes, and On Time otherwise.
C2_StatusAfterTick ==
    [][isPositionTick =>
        \A k \in 1..Len(trains') :
            LET t == trains'[k]
            IN  /\ t.status = "Critical" <=> t.delay > 5 * DelayScale
                /\ t.status = "Delayed" <=> (2 * DelayScale < t.delay /\ t.delay <= 5 * DelayScale)
                /\ t.status = "On Time" <=> t.delay <= 2 * DelayScale]_vars

\* C2 witness: W001 is Critical with a delay between 5 and 8 minutes after a
\* tick; a reroute would have added 8 minutes, so the status is the tick's
C2_Witness ==
    /\ hasTrain("W001")
    /\ ticks > 0
    /\ trainWithId("W001").status = "Critical"
    /\ trainWithId("W001").delay > 5 * DelayScale
    /\ trainWithId("W001").delay < 8 * DelayScale

\* C3 (Spec): every train's delay is >= 0 in every reachable state.
C3_DelayNonNegative ==
    \A k \in 1..Len(trains) : trains[k].delay >= 0

\* C3 witness: a swap has just been applied to W001 and its delay is 0
C3_Witness ==
    /\ hasTrain("W001")
    /\ Head(aiDecisionLog) = "[ACTION] SWAP applied to W001"
    /\ trainWithId("W001").delay = 0

\* C4 (SpecFactors): each of the eight disruption factor levels is in 0..5 in
\* every reachable state, and an increment raises a level by one up to 5.
C4_FactorBounds ==
    /\ [](\A f \in factorNames : disruptionFactors[f] \in 0..5)
    /\ [][\A f \in factorNames :
            \/ disruptionFactors'[f] = disruptionFactors[f]
            \/ disruptionFactors'[f] = disruptionFactors[f] + 1]_vars

\* C4 witness: rushHour is at 5 after six clicks, festivalCrowds untouched
C4_Witness ==
    /\ disruptionFactors.rushHour = 5
    /\ disruptionFactors.festivalCrowds = 0
    /\ clicks = 6

\* C5 (SpecMove): every train's passenger count is within 0..2000 in every
\* reachable state.
C5_PassengersInRange ==
    \A k \in 1..Len(trains) :
        trains[k].passengers >= 0 /\ trains[k].passengers <= 2000

C7_LogBounded ==
    /\ [](Len(aiDecisionLog) <= 10)
    /\ [][\E n \in 0..4 :
            /\ Len(aiDecisionLog') = Min(10, Len(aiDecisionLog) + n)
            /\ \A i \in 1..(Len(aiDecisionLog') - n) :
                  aiDecisionLog'[n + i] = aiDecisionLog[i]]_vars

\* C7 witness: a full log from which both initial entries have been dropped
C7_Witness ==
    /\ Len(aiDecisionLog) = 10
    /\ \A i \in 1..10 : \A j \in 1..Len(initialLog) : aiDecisionLog[i] # initialLog[j]

\* C8 (Spec): performQuickAction with an id that no train of the registry
\* has leaves the registry unchanged.
C8_UnknownIdNoOp ==
    [][\A action \in SpecInputs.actions : \A trainId \in SpecInputs.ids :
        (performQuickAction(action, trainId, MaxClicks) /\ ~hasTrain(trainId))
            => trains' = trains]_vars

\* C8 witness: a hold on W999 has just been logged while trains are running
C8_Witness ==
    /\ Len(trains) > 0
    /\ ~hasTrain("W999")
    /\ Head(aiDecisionLog) = "[ACTION] HOLD applied to W999"

\* C9 (Spec): performQuickAction with an id that no train of the registry
\* has leaves the decision log as it was.
C9_UnknownIdLogsNothing ==
    [][\A action \in SpecInputs.actions : \A trainId \in SpecInputs.ids :
        (performQuickAction(action, trainId, MaxClicks) /\ ~hasTrain(trainId))
            => aiDecisionLog' = aiDecisionLog]_vars

\* C10 (Spec): performQuickAction('hold', id) on a train of the registry adds
\* 3 minutes to its delay and sets its status to Delayed, whatever the delay.
C10_Hold ==
    [][\A trainId \in SpecInputs.ids : \A k \in 1..Len(trains) :
        (performQuickAction("hold", trainId, MaxClicks) /\ trains[k].id = trainId)
            => /\ trains'[k].delay = trains[k].delay + 3 * DelayScale
               /\ trains'[k].status = "Delayed"]_vars

\* C10 witness: W001 is Delayed with more than 5 minutes of delay right after
\* a hold
C10_Witness ==
    /\ hasTrain("W001")
    /\ Head(aiDecisionLog) = "[ACTION] HOLD applied to W001"
    /\ trainWithId("W001").status = "Delayed"
    /\ trainWithId("W001").delay > 5 * DelayScale

\* C11 (Spec): performQuickAction('swap', id) on a train of the registry
\* sets its delay to max(0, delay - 2 minutes): lower than before when the
\* delay was above 0, and 0 when it was 0.
C11_Swap ==
    [][\A trainId \in SpecInputs.ids : \A k \in 1..Len(trains) :
        (performQuickAction("swap", trainId, MaxClicks) /\ trains[k].id = trainId)
            => /\ trains'[k].delay =
                    (IF trains[k].delay > 2 * DelayScale
                     THEN trains[k].delay - 2 * DelayScale ELSE 0)
               /\ trains[k].delay > 0 => trains'[k].delay < trains[k].delay
               /\ trains[k].delay = 0 => trains'[k].delay = 0]_vars

\* C11 witness: W001, started with 2.1 minutes of delay, has 0.1 minutes
\* right after a swap and before any tick
C11_Witness ==
    /\ hasTrain("W001")
    /\ ticks = 0
    /\ Head(aiDecisionLog) = "[ACTION] SWAP applied to W001"
    /\ trainWithId("W001").delay = 20

\* C12 (Spec): performQuickAction('reroute', id) on a train of the registry
\* adds 8 minutes to its delay and sets its status to Critical.
C12_Reroute ==
    [][\A trainId \in SpecInputs.ids : \A k \in 1..Len(trains) :
        (performQuickAction("reroute", trainId, MaxClicks) /\ trains[k].id = trainId)
            => /\ trains'[k].delay = trains[k].delay + 8 * DelayScale
               /\ trains'[k].status = "Critical"]_vars

\* C12 witness: W001 is Critical with at least 8 minutes right after a reroute
C12_Witness ==
    /\ hasTrain("W001")
    /\ Head(aiDecisionLog) = "[ACTION] REROUTE applied to W001"
    /\ trainWithId("W001").status = "Critical"
    /\ trainWithId("W001").delay >= 8 * DelayScale

\* C13 (Spec): a position tick adds 0.05 to every train's segment progress,
\* or, when the sum reaches 1, sets the progress to 0 and moves the train to
\* its next station (the first one at the end of the line); it lowers no
\* train's delay.  A step lowers a train's delay only if it is a swap on it.
C13_TickAdvances ==
    /\ [][isPositionTick =>
            \A k \in 1..Len(trains) :
                LET t == trains[k]
                    u == trains'[k]
                    sum == t.positionInSegment + PosScale \div 20
                    arrived == indexIn(t, t.current) + 1
                IN  /\ sum < PosScale =>
                          /\ u.positionInSegment = sum
                          /\ u.current = t.current
                          /\ u.next = t.next
                    /\ sum >= PosScale =>
                          /\ u.positionInSegment = 0
                          /\ indexIn(u, u.current) =
                                (IF arrived >= lastIndexOf(t) THEN 0 ELSE arrived)
                          /\ indexIn(u, u.next) = indexIn(u, u.current) + 1
                    /\ u.delay >= t.delay]_vars
    /\ [][\A k \in 1..Min(Len(trains), Len(trains')) :
            (trains'[k].id = trains[k].id /\ trains'[k].delay < trains[k].delay)
                => performQuickAction("swap", trains[k].id, MaxClicks)]_vars

\* C13 witness: after one tick W001 has arrived at its next station with 0.45
\* minutes more delay and T010 is 0.05 into its segment
C13_Witness ==
    /\ hasTrain("W001") /\ hasTrain("T010")
    /\ ticks = 1
    /\ trainWithId("W001").positionInSegment = 0
    /\ indexIn(trainWithId("W001"), trainWithId("W001").current) = 10
    /\ trainWithId("W001").delay = 90
    /\ trainWithId("T010").positionInSegment = 3

\* C14 (SpecMultiplier): for all levels in 0..5 of the four factors, a
\* position tick with random draw u adds u * 0.5 * (1 + 0.5 rushHour +
\* 0.3 weather + 0.4 junctionCongestion + 0.6 equipmentReliability) minutes
\* to a delay; the multiplier is 3.5 with rushHour at 5 and the others at 0,
\* and 1 with all at 0.
C14_DelayMultiplier ==
    [][\A rnd \in drawsOf(MultiplierInputs.tickRnd) :
        positionTick(rnd, MultTicks) =>
            \A k \in 1..Len(trains) :
                LET f == disruptionFactors
                    \* ten times the multiplier
                    m10 == 10 + 5 * f.rushHour + 3 * f.weather
                              + 4 * f.junctionCongestion + 6 * f.equipmentReliability
                    \* the delay added, in units of 1/DelayScale minute:
                    \* (rnd/10) * 0.5 * (m10/10) * 200
                    added == trains'[k].delay - trains[k].delay
                IN  /\ added = rnd[k].delay * m10
                    /\ f = [noFactors EXCEPT !.rushHour = 5]
                          => added = rnd[k].delay * 35
                    /\ f = noFactors => added = rnd[k].delay * 10]_vars

\* C14 witness: with rushHour at 5 and the other factors at 0, a tick with
\* draw 0.9 has added 0.9 * 0.5 * 3.5 = 1.575 minutes to W001's delay of 0
C14_Witness ==
    /\ disruptionFactors = [noFactors EXCEPT !.rushHour = 5]
    /\ ticks = 1
    /\ hasTrain("W001")
    /\ trainWithId("W001").delay = 315

\* C15 (Spec): stopSimulation leaves the registry empty, the displayed
\* metrics at train count 0, passengers 0, average delay 0 and efficiency 100,
\* and the position, metrics, decision-cycle and animation timers not armed;
\* none of the four is armed while the simulation is not running.
C15_StopClears ==
    /\ [][stopSimulation(MaxClicks) =>
            /\ ~isSimulationRunning'
            /\ trains' = << >>
            /\ trainCount' = 0
            /\ passengerCount' = 0
            /\ avgDelay'[1] = 0
            /\ efficiency'[1] = 100 * efficiency'[2]]_vars
    /\ [](~isSimulationRunning =>
            /\ ~simulationIntervalRef.armed
            /\ ~trackingIntervalRef.armed
            /\ ~advancedSystemsIntervalRef.armed
            /\ ~animationFrameRef.armed)

\* C15 witness: the simulation was started, ticked, and has been stopped
C15_Witness ==
    /\ ~isSimulationRunning
    /\ ticks > 0
    /\ trains = << >>
    /\ ~simulationIntervalRef.armed

\* C16 (SpecAI): a deferred callback that fires while the simulation is not
\* running (every narration line is scheduled by a round of the decision
\* cycle, which runs only between start and stop) leaves the registry, the
\* factor levels, the counters and the decision log unchanged.
C16_LateCallbackNoOp ==
    [][(~isSimulationRunning /\ Len(timeouts') < Len(timeouts))
        => UNCHANGED <<trains, disruptionFactors, aiDecisions, aiPreventedDelays,
                       aiOptimizations, aiPerformance, aiDecisionLog>>]_vars

\* C17 (Spec): stopSimulation leaves the decision, prevented-delay and
\* optimization counters and the performance gain at 0.
C17_StopClearsCounters ==
    [][stopSimulation(MaxClicks) =>
        /\ aiDecisions' = 0
        /\ aiPreventedDelays' = 0
        /\ aiOptimizations' = 0
        /\ aiPerformance' = 0]_vars

\* C18 (Spec): while the AI suite is inactive no timer callback adds an entry
\* to the decision log: the log changes only by a user's action.
C18_NoLogGrowthWhileInactive ==
    [][(~aiActive /\ ~aiActive' /\ clicks' = clicks)
        => aiDecisionLog' = aiDecisionLog]_vars

\* C19 (Spec): while the AI suite is inactive the decision, prevented-delay
\* and optimization counters do not change.
C19_NoRoundWhileInactive ==
    [][(~aiActive /\ ~aiActive')
        => UNCHANGED <<aiDecisions, aiPreventedDelays, aiOptimizations>>]_vars

\* C20 (Spec): a tick of the decision cycle while the AI suite is active
\* raises the decision counter by 1 to 5; a tick while it is inactive changes
\* neither the counters, the performance gain, the log nor the deferred
\* callbacks.
C20_TickFollowsFlag ==
    [][\A round \in SpecInputs.rounds :
        advancedSystemsTick(round, MaxDecisions, MaxPending, MaxCallbacks) =>
            IF aiActive
            THEN aiDecisions' - aiDecisions \in 1..5
            ELSE UNCHANGED <<aiDecisions, aiPreventedDelays, aiOptimizations,
                             aiPerformance, aiDecisionLog, timeouts>>]_vars

C22_MetricsFromRegistry ==
    [][(trackingTick(MaxCallbacks) /\ isSimulationRunning /\ Len(trains) > 0)
        => /\ trainCount' = Len(trains)
           /\ avgDelay'[2] = Len(trains)]_vars

\* C23 (Spec): a step that starts the simulation leaves all eight disruption
\* factor levels at 0.
C23_FactorsZeroAtStart ==
    [][(~isSimulationRunning /\ isSimulationRunning')
        => \A f \in factorNames : disruptionFactors'[f] = 0]_vars

\* C24 (Spec): in every reachable state each train's status is Critical iff
\* its delay is above 5 minutes, Delayed iff its delay is above 2 and at most
\* 5 minutes, and On Time otherwise.
C24_StatusFollowsDelay ==
    \A k \in 1..Len(trains) :
        trains[k].status =
            (IF trains[k].delay > 5 * DelayScale THEN "Critical"
             ELSE IF trains[k].delay > 2 * DelayScale THEN "Delayed"
             ELSE "On Time")

\* C25 (SpecMove): a position tick that brings a train to the last station of
\* its line reverses the train's direction.
C25_DirectionReverses ==
    [][isPositionTick =>
        \A k \in 1..Len(trains) :
            (/\ trains[k].positionInSegment + PosScale \div 20 >= PosScale
             /\ indexIn(trains[k], trains[k].current) + 1 = lastIndexOf(trains[k]))
            => trains'[k].direction # trains[k].direction]_vars

\* C26 (SpecFleet): while the simulation is running the registry holds
\* exactly 40 trains with pairwise distinct ids, W001..W015 on Western,
\* C001..C015 on Central Main and T001..T010 on Trans-Harbour, and no step
\* between start and stop changes the number or the ids of the trains.
C26_FortyTrains ==
    /\ [](LET nums == <<"001", "002", "003", "004", "005", "006", "007", "008",
                        "009", "010", "011", "012", "013", "014", "015">>
              expected ==
                  [k \in 1..15 |-> [id |-> "W" \o nums[k], line |-> "Western"]]
                  \o [k \in 1..15 |-> [id |-> "C" \o nums[k], line |-> "Central Main"]]
                  \o [k \in 1..10 |-> [id |-> "T" \o nums[k], line |-> "Trans-Harbour"]]
          IN  isSimulationRunning =>
                /\ Len(trains) = 40
                /\ \A k \in 1..Len(trains) :
                      \E e \in 1..40 : /\ trains[k].id = expected[e].id
                                       /\ trains[k].line = expected[e].line
                /\ \A j, k \in 1..Len(trains) : j # k => trains[j].id # trains[k].id)
    /\ [][(isSimulationRunning /\ isSimulationRunning') =>
            /\ Len(trains') = Len(trains)
            /\ \A k \in 1..Len(trains) : trains'[k].id = trains[k].id]_vars

\* C26 witness: 40 trains are running after a position tick and a hold
C26_Witness ==
    /\ isSimulationRunning
    /\ Len(trains) = 40
    /\ ticks > 0
    /\ Head(aiDecisionLog) = "[ACTION] HOLD applied to C008"
    /\ hasTrain("W015") /\ hasTrain("C015") /\ hasTrain("T010")

\* C27 (Spec): the delay a position tick with random draw u adds to a train
\* is u * 0.5 * multiplier minutes for the multiplier of the factor levels
\* current at that tick.
C27_TickUsesCurrentFactors ==
    [][\A rnd \in drawsOf(SpecInputs.tickRnd) :
        positionTick(rnd, MaxTicks) =>
            \A k \in 1..Len(trains) :
                trains'[k].delay - trains[k].delay =
                    rnd[k].delay * (10 + 5 * disruptionFactors.rushHour
                                       + 3 * disruptionFactors.weather
                                       + 4 * disruptionFactors.junctionCongestion
                                       + 6 * disruptionFactors.equipmentReliability)]_vars

\* C28 (SpecAI): a decision round (the only step that raises the decision
\* counter) changes neither the registry, the factor levels, the displayed
\* metrics nor the running and AI flags.
C28_RoundFrame ==
    [][aiDecisions' # aiDecisions =>
        UNCHANGED <<trains, disruptionFactors, trainCount, passengerCount,
                    avgDelay, efficiency, isSimulationRunning, aiActive>>]_vars

\* C28 witness: a round that prevented a delay and optimized a route has been
\* performed while trains are running
C28_Witness ==
    /\ isSimulationRunning
    /\ Len(trains) > 0
    /\ aiDecisions > 0
    /\ aiPreventedDelays > 0
    /\ aiOptimizations > 0

\* C29 (Spec): after a decision round the performance gain is min(15,
\* decisions * 0.1 + optimizations * 0.5) on the counters as the round left
\* them, and is at most 15.
C29_PerformanceGain ==
    [][aiDecisions' # aiDecisions =>
        /\ aiPerformance' <= 150
        /\ aiPerformance' =
              (IF aiDecisions' + 5 * aiOptimizations' < 150
               THEN aiDecisions' + 5 * aiOptimizations' ELSE 150)]_vars

\* C30 (Spec): the efficiency is within 0..100 and its and the average delay's
\* divisors are not 0; it is 100 while the registry is empty; a metrics tick
\* on a non-empty registry publishes 100 * on-time trains / trains.
C30_Efficiency ==
    /\ [](/\ efficiency[2] > 0
          /\ avgDelay[2] > 0
          /\ 0 <= efficiency[1]
          /\ efficiency[1] <= 100 * efficiency[2]
          /\ trains = << >> => efficiency[1] = 100 * efficiency[2])
    /\ [][(trackingTick(MaxCallbacks) /\ Len(trains) > 0) =>
            efficiency'[1] * Len(trains) =
                100 * Cardinality({k \in 1..Len(trains) : trains[k].status = "On Time"})
                    * efficiency'[2]]_vars

\* C31 (SpecFleet): right after a start, any two distinct trains of one line
\* differ in current station or in segment progress.
C31_DistinctStartPositions ==
    [][(~isSimulationRunning /\ isSimulationRunning') =>
        \A j, k \in 1..Len(trains') :
            (j # k /\ trains'[j].line = trains'[k].line)
                => <<trains'[j].current, trains'[j].positionInSegment>>
                     # <<trains'[k].current, trains'[k].positionInSegment>>]_vars

\* C32 (Spec): every train's next station is one index away from its current
\* station, and two trains with different direction flags move through the
\* indices in different directions.
C32_NextFollowsDirection ==
    /\ \A k \in 1..Len(trains) :
          indexIn(trains[k], trains[k].next) - indexIn(trains[k], trains[k].current)
              \in {-1, 1}
    /\ \A j, k \in 1..Len(trains) :
          trains[j].direction # trains[k].direction
              => indexIn(trains[j], trains[j].next) - indexIn(trains[j], trains[j].current)
                   # indexIn(trains[k], trains[k].next) - indexIn(trains[k], trains[k].current)

\* C33 (Spec): a hold, swap or reroute on a train of the registry puts one
\* line "[ACTION] <ACTION> applied to <id>" in front of the log and changes
\* nothing but that train's delay and status: the other trains, the factor
\* levels, the counters, the metrics and the flags are unchanged.
C33_QuickActionFrame ==
    [][\A action \in SpecInputs.actions : \A trainId \in SpecInputs.ids :
        (performQuickAction(action, trainId, MaxClicks) /\ hasTrain(trainId)) =>
            LET name == CASE action = "hold" -> "HOLD"
                          [] action = "swap" -> "SWAP"
                          [] action = "reroute" -> "REROUTE"
                kept == Len(aiDecisionLog') - 1
            IN  /\ Head(aiDecisionLog') = "[ACTION] " \o name \o " applied to " \o trainId
                /\ kept = (IF Len(aiDecisionLog) < 10 THEN Len(aiDecisionLog) ELSE 9)
                /\ \A i \in 1..kept : aiDecisionLog'[i + 1] = aiDecisionLog[i]
                /\ Len(trains') = Len(trains)
                /\ \A k \in 1..Len(trains) :
                      IF trains[k].id = trainId
                      THEN [trains'[k] EXCEPT !.delay = trains[k].delay,
                                              !.status = trains[k].status] = trains[k]
                      ELSE trains'[k] = trains[k]
                /\ UNCHANGED <<disruptionFactors, aiDecisions, aiPreventedDelays,
                               aiOptimizations, aiPerformance, trainCount,
                               passengerCount, avgDelay, efficiency,
                               isSimulationRunning, aiActive>>]_vars

\* C33 witness: a reroute has just been applied to W001 and T010 is as it
\* started
C33_Witness ==
    /\ hasTrain("W001") /\ hasTrain("T010")
    /\ ticks = 0
    /\ Head(aiDecisionLog) = "[ACTION] REROUTE applied to W001"
    /\ trainWithId("W001").delay >= 8 * DelayScale
    /\ trainWithId("T010").delay = 0
    /\ trainWithId("T010").status = "On Time"

C35_AddFactorFrame ==
    /\ [][\A factor \in FactorInputs.factors :
            addDisruptionFactor(factor, FactorClicks) =>
                /\ disruptionFactors'[factor] =
                      (IF disruptionFactors[factor] = 5 THEN 5
                       ELSE disruptionFactors[factor] + 1)
                /\ \A other \in factorNames \ {factor} :
                      disruptionFactors'[other] = disruptionFactors[other]
                /\ UNCHANGED <<trains, aiDecisionLog, aiDecisions, aiPreventedDelays,
                               aiOptimizations, aiPerformance, trainCount,
                               passengerCount, avgDelay, efficiency>>]_vars
    /\ [][\A factor \in factorNames :
            disruptionFactors'[factor] >= disruptionFactors[factor]]_vars

\* C35 witness: both factors have been raised next to a started registry
C35_Witness ==
    /\ Len(trains) > 0
    /\ disruptionFactors.rushHour = 2
    /\ disruptionFactors.festivalCrowds = 1
    /\ disruptionFactors.platformStrain = 0

\* C36 (SpecFactors): a position tick gives every train the position, delay,
\* status and passenger count it would get, with the same draws, under any
\* other levels of festivalCrowds, platformStrain, staffEfficiency and
\* externalDelays.
C36_UnweightedFactorsIgnored ==
    [][\A rnd \in drawsOf(FactorInputs.tickRnd) :
        positionTick(rnd, FactorTicks) =>
            \A fc, ps, se, ed \in {0, 3, 5} :
                LET seen == simulationIntervalRef.scope.disruptionFactors
                    other == [seen EXCEPT !.festivalCrowds = fc,
                                          !.platformStrain = ps,
                                          !.staffEfficiency = se,
                                          !.externalDelays = ed]
                IN  trains' = updateTrainPositions(trains, other, rnd)]_vars

\* C36 witness: a tick ran with festivalCrowds 2 and rushHour 1 in force and
\* the delay grew by the rush-hour multiplier alone
C36_Witness ==
    /\ ticks = 1
    /\ simulationIntervalRef.armed
    /\ simulationIntervalRef.scope.disruptionFactors.festivalCrowds = 2
    /\ simulationIntervalRef.scope.disruptionFactors.rushHour = 1
    /\ \E k \in 1..Len(trains) : trains[k].delay = 9 * 15

\* C37 (SpecLive): while the position interval keeps firing, every train is
\* at most 20 ticks away from its next arrival and each tick either changes
\* its current index or brings the arrival one tick closer; and every train
\* is at index 0 of its line again and again.
C37_MovementProgress ==
    /\ [](\A k \in 1..Len(trains) :
            (PosScale - trains[k].positionInSegment + PositionIncrement - 1)
                \div PositionIncrement \in 1..20)
    /\ [][\A k \in 1..Len(trains) :
            \/ indexIn(trains'[k], trains'[k].current) # indexIn(trains[k], trains[k].current)
            \/ (PosScale - trains'[k].positionInSegment + PositionIncrement - 1)
                   \div PositionIncrement
                 = (PosScale - trains[k].positionInSegment + PositionIncrement - 1)
                       \div PositionIncrement - 1]_vars
    /\ \A k \in 1..Len(LiveInputs.fleet) :
            []<>(indexIn(trains[k], trains[k].current) = 0)

\* C37 witness: the Western train is back at Churchgate with a full load on
\* the Trans-Harbour train, which takes more than a lap of either line
C37_Witness ==
    /\ trainWithId("W001").current = "Churchgate"
    /\ trainWithId("W001").positionInSegment = 0
    /\ trainWithId("T010").passengers = MaxPassengers

\* C38 (Spec): in every reachable state the AI log interval is armed if and
\* only if aiActive is true.
C38_LogTimerFollowsFlag == aiLogIntervalRef.armed <=> aiActive

\* C39 (Spec): no handler arms a periodic timer over a handle that is still
\* armed: while the simulation is not running the position, tracking,
\* decision-cycle and animation handles are clear and a start happens only
\* then; while the optimization is inactive the AI log handle is clear and
\* an activation happens only then.
C39_NoOrphanTimer ==
    /\ [](~isSimulationRunning =>
            /\ ~simulationIntervalRef.armed
            /\ ~trackingIntervalRef.armed
            /\ ~advancedSystemsIntervalRef.armed
            /\ ~animationFrameRef.armed)
    /\ [](~aiActive => ~aiLogIntervalRef.armed)
    /\ [][(\E now \in SpecInputs.nows : \E rnd \in drawsOf(SpecInputs.initRnd) :
              startSimulation(SpecInputs.fleet, now, rnd, MaxClicks))
            => /\ ~simulationIntervalRef.armed
               /\ ~trackingIntervalRef.armed
               /\ ~advancedSystemsIntervalRef.armed
               /\ ~animationFrameRef.armed]_vars
    /\ [][(toggleAI(MaxPending, MaxClicks) /\ aiActive')
            => ~aiLogIntervalRef.armed]_vars

\* C39 witness: the simulation runs again after a start and a stop, every
\* handle armed once more
C39_Witness ==
    /\ isSimulationRunning
    /\ clicks = 3
    /\ disruptionFactors = noFactors
    /\ aiDecisionLog = initialLog
    /\ simulationIntervalRef.armed
    /\ trackingIntervalRef.armed
    /\ advancedSystemsIntervalRef.armed
    /\ animationFrameRef.armed

=============================================================================
